---- MODULE Spec2Model ----
(***************************************************************************)
(* Model of graph_ql/schema.py: the GraphQL schema over the Book table.     *)
(*                                                                         *)
(* The resolvers hold no lock and open no transaction, so requests served  *)
(* at the same time interleave at their SQL statements. Every action is    *)
(* one statement together with the Python code around it: allBooks, book,  *)
(* review and createBook issue one statement; deleteBook issues a SELECT   *)
(* and a DELETE; updateBook issues a SELECT, the UPDATE of save() and,     *)
(* when that UPDATE matched no row, the INSERT of save(). Requests served  *)
(* one after the other are the behaviours in which the statements of a     *)
(* request follow each other at once.                                      *)
(*                                                                         *)
(* response is the answer of the statement run last, until it has gone    *)
(* out to its client (Deliver); answers are observed one at a time. An     *)
(* answer on its way holds back no request: Deliver changes nothing but    *)
(* response, so every order of statements is a behaviour.                  *)
(*                                                                         *)
(* Python values that may be None are modelled as sequences of length at   *)
(* most one: None is << >>, the value v is << v >>.                        *)
(***************************************************************************)
EXTENDS Integers, Sequences, FiniteSets, Bags, TLC

VARIABLES rows,       \* the Book table: primary key -> column values
          seq,        \* the table's AUTOINCREMENT sequence (last key handed out)
          req,        \* the updateBook/deleteBook requests between two statements
          response,   \* the answer on its way to a client
          created,    \* history: id -> the record createBook returned for it,
                      \*   kept until an update or delete of the id
          deleted     \* history: ids a deleteBook request answered with success

vars == <<rows, seq, req, response, created, deleted>>

\* ---------------------------------------------------------------- bounds
MaxId == 2

\* ------------------------------------------------------- Python values
None == << >>
Some(v) == << v >>

\* -------------------------------------------------- the Book model (table)
\* Column values the requests carry: the record of the specification's
\* scenario and a payload that leaves every field out.
Columns(title, author, year_published, review) ==
    [title |-> title, author |-> author,
     year_published |-> year_published, review |-> review]

BookColumns ==
    { Columns(Some("A"), Some("B"), Some("2020"), Some(5)),
      Columns(None, None, None, None) }

\* A Book instance in memory: the columns plus the primary key (None before
\* the first save).
Book(id, title, author, year_published, review) ==
    [id |-> id, title |-> title, author |-> author,
     year_published |-> year_published, review |-> review]

ColumnsOf(book) ==
    [title |-> book.title, author |-> book.author,
     year_published |-> book.year_published, review |-> book.review]

FromRow(table, pk) ==
    Book(Some(pk), table[pk].title, table[pk].author,
         table[pk].year_published, table[pk].review)

\* ------------------------------------------------------------ BookInput
\* graphene.ID values reach the ORM as the integer key they spell (the
\* primary key column converts them); ids are modelled as that integer.
InputIds == {None} \cup {Some(i) : i \in 1..MaxId}

BookInput ==
    { [id |-> id, title |-> c.title, author |-> c.author,
       year_published |-> c.year_published, review |-> c.review] :
          id \in InputIds, c \in BookColumns }

\* --------------------------------------------------------- ORM calls
\* Results of Python calls are tagged with the Python type of the value;
\* "Raise" is an exception leaving the call.
Instance(book) == [type |-> "Book", value |-> book]
QuerySet(books) == [type |-> "QuerySet", value |-> books]
PyNone == [type |-> "NoneType", value |-> None]
Raise(exc) == [type |-> "Raise", value |-> exc]

\* Book.objects.all()
objects_all(table) == QuerySet({FromRow(table, pk) : pk \in DOMAIN table})

\* Book.objects.get(pk=...): pk=None compiles to "id IS NULL", no row.
objects_get(table, pk) ==
    IF pk # None /\ pk[1] \in DOMAIN table
    THEN Instance(FromRow(table, pk[1]))
    ELSE Raise("DoesNotExist")

\* Book.objects.filter(review__exact=...)
objects_filter(table, book_review) ==
    QuerySet({FromRow(table, pk) :
                 pk \in {k \in DOMAIN table : table[k].review = Some(book_review)}})

Put(table, pk, columns) ==
    [k \in DOMAIN table \cup {pk} |-> IF k = pk THEN columns ELSE table[k]]

\* instance.save() issues its statements one by one, with no transaction
\* around them (Book has no parent model). The first statement: without a
\* primary key the INSERT under the next sequence value; with one, UPDATE
\* ... WHERE id = pk. done is false when that UPDATE matched no row: save()
\* goes on to the INSERT of save_insert.
save_update(table, counter, book) ==
    IF book.id = None
    THEN [rows |-> Put(table, counter + 1, ColumnsOf(book)),
          seq |-> counter + 1,
          done |-> TRUE,
          result |-> Instance([book EXCEPT !.id = Some(counter + 1)])]
    ELSE IF book.id[1] \in DOMAIN table
    THEN [rows |-> Put(table, book.id[1], ColumnsOf(book)),
          seq |-> counter,
          done |-> TRUE,
          result |-> Instance(book)]
    ELSE [rows |-> table, seq |-> counter, done |-> FALSE,
          result |-> Instance(book)]

\* The second statement of save(): INSERT with the instance's primary key.
\* The key is unique: a row stored under it by now makes the INSERT fail.
save_insert(table, counter, book) ==
    IF book.id[1] \in DOMAIN table
    THEN [rows |-> table, seq |-> counter, done |-> TRUE,
          result |-> Raise("IntegrityError")]
    ELSE [rows |-> Put(table, book.id[1], ColumnsOf(book)),
          seq |-> IF book.id[1] > counter THEN book.id[1] ELSE counter,
          done |-> TRUE,
          result |-> Instance(book)]

\* instance.delete(): DELETE ... WHERE id = pk
delete(table, book) ==
    [k \in DOMAIN table \ {book.id[1]} |-> table[k]]


\* --------------------------------------------------- the schema's fields
\* graphene.Field(BookType): None completes to null, a Book instance to the
\* object; BookType.is_type_of rejects any value that is not a model
\* instance ("Received incompatible instance"). An exception raised by the
\* resolver is reported as an error with null data.
complete_Field(result) ==
    CASE result.type = "Raise" -> [data |-> None, error |-> Some(result.value)]
      [] result.type = "NoneType" -> [data |-> None, error |-> None]
      [] result.type = "Book" -> [data |-> Some(result.value), error |-> None]
      [] OTHER -> [data |-> None, error |-> Some("incompatible instance")]

\* graphene.List(BookType): the resolver's iterable, item by item.
complete_List(result) ==
    CASE result.type = "Raise" -> [data |-> None, error |-> Some(result.value)]
      [] result.type = "NoneType" -> [data |-> None, error |-> None]
      [] result.type = "QuerySet" -> [data |-> Some(result.value), error |-> None]
      [] OTHER -> [data |-> None, error |-> Some("not iterable")]

\* Mutation.Field(): the payload object with its book field, null when
\* mutate returned None.
complete_Payload(result) ==
    CASE result.type = "Raise" -> [data |-> None, error |-> Some(result.value)]
      [] result.type = "NoneType" -> [data |-> None, error |-> None]
      [] OTHER ->
           LET book == complete_Field(result.value.book)
           IN  [data |-> Some([book |-> book.data]), error |-> book.error]

Query_all_books(result) == complete_List(result)
Query_book(result) == complete_Field(result)
Query_review(result) == complete_Field(result)

\* ------------------------------------------------------- query resolvers
resolve_all_books(table) == objects_all(table)

\* Variant: the lookup written with filter(), as resolve_review is.
resolve_book_filter(table, book_id) ==
    QuerySet({FromRow(table, pk) : pk \in DOMAIN table \cap {book_id}})

resolve_book(table, book_id) == objects_get(table, Some(book_id))

resolve_review(table, book_review) == objects_filter(table, book_review)

\* ------------------------------------------------------------ mutations
Payload(mutation, book) == [type |-> mutation, value |-> [book |-> book]]

\* What a mutate leaves with: the payload around the saved instance, or the
\* exception of the save.
Return(mutation, saved) ==
    IF saved.type = "Raise" THEN saved ELSE Payload(mutation, saved)

Outcome(table, counter, result) ==
    [rows |-> table, seq |-> counter, result |-> result]

\* Variant: the input's id is handed to the new instance.
CreateBook_mutate_with_id(table, counter, book_data) ==
    LET book_instance == Book(book_data.id, book_data.title, book_data.author,
                              book_data.year_published, book_data.review)
        saved == save_update(table, counter, book_instance)
    IN  Outcome(saved.rows, saved.seq, Return("CreateBook", saved.result))

\* CreateBook.mutate: the new instance has no primary key, its save() is
\* the INSERT alone.
CreateBook_mutate(table, counter, book_data) ==
    LET book_instance == Book(None, book_data.title, book_data.author,
                              book_data.year_published, book_data.review)
        saved == save_update(table, counter, book_instance)
    IN  Outcome(saved.rows, saved.seq, Return("CreateBook", saved.result))

\* Variant: a lookup that yields None for a missing row
\* (filter(pk=...).first()), which makes the null branch of line 90 live.
UpdateBook_get_first(table, book_data) ==
    IF book_data.id # None /\ book_data.id[1] \in DOMAIN table
    THEN Instance(FromRow(table, book_data.id[1]))
    ELSE PyNone

\* UpdateBook.mutate, line 80: the lookup.
UpdateBook_get(table, book_data) == objects_get(table, book_data.id)

\* bool(book_instance): a model instance is always true.
Truthy(value) == value.type # "NoneType"

\* Variant: the new values are put into a fresh instance, not the loaded one.
UpdateBook_assign_fresh(got, book_data) ==
    Book(None, book_data.title, book_data.author,
         book_data.year_published, book_data.review)

\* UpdateBook.mutate, lines 83-86: the four assignments to the loaded
\* instance.
UpdateBook_assign(got, book_data) ==
    [got.value EXCEPT !.title = book_data.title,
                      !.author = book_data.author,
                      !.year_published = book_data.year_published,
                      !.review = book_data.review]

\* UpdateBook.mutate, lines 83-87 up to the first statement of save().
UpdateBook_save(table, counter, got, book_data) ==
    save_update(table, counter, UpdateBook_assign(got, book_data))

\* DeleteBook.mutate, line 103: the lookup.
DeleteBook_get(table, id) == objects_get(table, id)

\* Variant: the mutation returns the deleted record in its book field.
DeleteBook_apply_returns_book(table, counter, got) ==
    Outcome(delete(table, got.value), counter, Payload("DeleteBook", got))

\* DeleteBook.mutate, lines 104-106, given the instance the lookup returned.
DeleteBook_apply(table, counter, got) ==
    Outcome(delete(table, got.value), counter, PyNone)

\* --------------------------------------------------------------- requests
\* The threads that serve requests: so many updateBook/deleteBook requests
\* can be between two of their statements at once.
Workers == {"w1", "w2", "w3"}

\* A request between two statements of its mutate is what the Python frame
\* holds: the argument and book_instance, as the lookup returned it
\* ("loaded") or as save() is writing it ("saving": the UPDATE matched no
\* row, the INSERT is still to come). Frames are kept as a bag: the threads
\* are interchangeable.
Loaded(op, arg, got) ==
    [pc |-> "loaded", op |-> op, arg |-> arg, book_instance |-> got]

Saving(op, arg, book_instance) ==
    [pc |-> "saving", op |-> op, arg |-> arg, book_instance |-> book_instance]

One(frame) == SetToBag({frame})

Free == BagCardinality(req) < Cardinality(Workers)

\* over: the stored record the save() of an updateBook came upon without
\* the request having read it (Unread, an observation of the answering
\* step; None for every other answer).
Response(op, arg, completed, over) ==
    [op |-> op, arg |-> arg, data |-> completed.data,
     error |-> completed.error, over |-> over]

Drop(f, k) == [x \in DOMAIN f \ {k} |-> f[x]]

Ok(r) == r.error = None
NotFound(r) == r.error = Some("DoesNotExist") /\ r.data = None

\* The book a mutation's payload carries (call BookOf only when HasBook holds).
HasBook(r) == r.data # None /\ r.data[1].book # None
BookOf(r) == r.data[1].book[1]

\* No answer is on its way to a client.
NoResponse == Response("none", None, [data |-> None, error |-> None], None)

Init ==
    /\ rows = << >>
    /\ seq = 0
    /\ req = EmptyBag
    /\ response = NoResponse
    /\ created = << >>
    /\ deleted = {}

AllBooks ==
    /\ response = NoResponse
    /\ response' = Response("allBooks", None,
                            Query_all_books(resolve_all_books(rows)), None)
    /\ UNCHANGED <<rows, seq, req, created, deleted>>

BookQuery ==
    \E book_id \in 1..MaxId :
        /\ response = NoResponse
        /\ response' = Response("book", book_id,
                                Query_book(resolve_book(rows, book_id)), None)
        /\ UNCHANGED <<rows, seq, req, created, deleted>>

ReviewQuery ==
    \E book_review \in {4, 5} :
        /\ response = NoResponse
        /\ response' = Response("review", book_review,
                                Query_review(resolve_review(rows, book_review)),
                                None)
        /\ UNCHANGED <<rows, seq, req, created, deleted>>

\* createBook: mutate issues one statement, the INSERT of save().
CreateBook ==
    \E book_data \in BookInput :
        /\ response = NoResponse
        /\ seq < MaxId
        /\ LET out == CreateBook_mutate(rows, seq, book_data)
               sent == complete_Payload(out.result)
           IN  /\ rows' = out.rows
               /\ seq' = out.seq
               /\ response' = Response("createBook", book_data, sent, None)
               /\ created' = Put(created, out.seq, sent.data[1].book)
        /\ UNCHANGED <<req, deleted>>

\* updateBook, line 80: the SELECT. DoesNotExist leaves mutate and is the
\* request's answer.
UpdateBookGet ==
    \E book_data \in BookInput :
        /\ response = NoResponse
        /\ Free
        /\ LET got == UpdateBook_get(rows, book_data)
           IN  IF got.type = "Raise"
               THEN /\ response' = Response("updateBook", book_data,
                                            complete_Payload(got), None)
                    /\ req' = req
               ELSE /\ req' = req (+) One(Loaded("updateBook", book_data, got))
                    /\ response' = response
        /\ UNCHANGED <<rows, seq, created, deleted>>

\* The stored record a statement of an updateBook's save() finds under the
\* request's id without the request having read it: at the UPDATE, the row
\* when it is no longer what the lookup returned; at the INSERT, any row
\* (the UPDATE found none, so it was stored since).
Unread(frame) ==
    LET pk == frame.book_instance.value.id[1]
    IN  IF /\ pk \in DOMAIN rows
           /\ \/ frame.pc = "saving"
              \/ FromRow(rows, pk) # frame.book_instance.value
        THEN Some(FromRow(rows, pk))
        ELSE None

\* The answer of an updateBook and what it does to the histories.
UpdateBookAnswer(frame, out, over) ==
    LET sent == complete_Payload(Return("UpdateBook", out.result))
        stored == sent.error = None /\ sent.data # None
                     /\ sent.data[1].book # None
    IN  /\ rows' = out.rows
        /\ seq' = out.seq
        /\ response' = Response("updateBook", frame.arg, sent, over)
        /\ created' = IF stored
                      THEN Drop(created, sent.data[1].book[1].id[1])
                      ELSE created
        /\ req' = req (-) One(frame)
        /\ UNCHANGED deleted

\* updateBook, lines 82-90 up to the first statement of save(): the
\* assignments and the UPDATE. When the UPDATE matched a row the request is
\* answered; when it matched none the request goes on to the INSERT.
UpdateBookUpdate ==
    \E frame \in BagToSet(req) :
        /\ response = NoResponse
        /\ frame.pc = "loaded"
        /\ frame.op = "updateBook"
        /\ IF Truthy(frame.book_instance)
           THEN LET out == UpdateBook_save(rows, seq, frame.book_instance, frame.arg)
                IN  IF out.done
                    THEN UpdateBookAnswer(frame, out, Unread(frame))
                    ELSE /\ req' = (req (-) One(frame))
                                     (+) One(Saving("updateBook", frame.arg, out.result))
                         /\ UNCHANGED <<rows, seq, response, created, deleted>>
           ELSE UpdateBookAnswer(frame, Outcome(rows, seq, PyNone), None)

\* updateBook, line 87, the second statement of save(): the INSERT, and the
\* return of line 89 or the IntegrityError that leaves mutate.
UpdateBookInsert ==
    \E frame \in BagToSet(req) :
        /\ response = NoResponse
        /\ frame.pc = "saving"
        /\ frame.op = "updateBook"
        /\ UpdateBookAnswer(frame,
                            save_insert(rows, seq, frame.book_instance.value),
                            Unread(frame))

\* deleteBook, line 103: the SELECT.
DeleteBookGet ==
    \E id \in InputIds \ {None} :
        /\ response = NoResponse
        /\ Free
        /\ LET got == DeleteBook_get(rows, id)
           IN  IF got.type = "Raise"
               THEN /\ response' = Response("deleteBook", [id |-> id],
                                            complete_Payload(got), None)
                    /\ req' = req
               ELSE /\ req' = req (+) One(Loaded("deleteBook", [id |-> id], got))
                    /\ response' = response
        /\ UNCHANGED <<rows, seq, created, deleted>>

\* deleteBook, lines 104-106: the DELETE and the return.
DeleteBookDelete ==
    \E frame \in BagToSet(req) :
        /\ response = NoResponse
        /\ frame.pc = "loaded"
        /\ frame.op = "deleteBook"
        /\ LET id == frame.arg.id
               out == DeleteBook_apply(rows, seq, frame.book_instance)
               sent == complete_Payload(out.result)
           IN  /\ rows' = out.rows
               /\ seq' = out.seq
               /\ response' = Response("deleteBook", frame.arg, sent, None)
               /\ created' = IF sent.error = None THEN Drop(created, id[1])
                             ELSE created
               /\ deleted' = IF sent.error = None THEN deleted \cup {id[1]}
                             ELSE deleted
        /\ req' = req (-) One(frame)

\* The answer goes out to the client that sent the request.
Deliver ==
    /\ response # NoResponse
    /\ response' = NoResponse
    /\ UNCHANGED <<rows, seq, req, created, deleted>>

Next ==
    \/ Deliver
    \/ AllBooks
    \/ BookQuery
    \/ ReviewQuery
    \/ CreateBook
    \/ UpdateBookGet
    \/ DeleteBookGet
    \/ UpdateBookUpdate
    \/ UpdateBookInsert
    \/ DeleteBookDelete

Spec == Init /\ [][Next]_vars

\* ------------------------------------------------------- reading a step
\* The step is a statement of this request in flight.
Stepped(frame) ==
    BagIn(frame, req) /\ CopiesIn(frame, req') = CopiesIn(frame, req) - 1

\* The step answers this request in flight.
Written(frame) ==
    Stepped(frame) /\ BagCardinality(req') < BagCardinality(req)

\* The step is a lookup that returned an instance: mutate goes on with it.
Passed(frame) ==
    frame.pc = "loaded" /\ CopiesIn(frame, req') = CopiesIn(frame, req) + 1

\* The step answers a request of this kind: by its only statement or a
\* refused lookup (no request in flight moves), or by a request in flight.
Refused == req' = req
Answered(op) ==
    /\ response'.op = op
    /\ (Refused \/ \E frame \in BagToSet(req) : Written(frame))

OthersKept(before, after, pk) ==
    \A k \in DOMAIN before \ {pk} : k \in DOMAIN after /\ after[k] = before[k]

Record(book_data) ==
    Book(book_data.id, book_data.title, book_data.author,
         book_data.year_published, book_data.review)

\* ================================================================ claims

\* C1: createBook inserts exactly one new record and returns it: the
\* returned record carries a non-null id handed out by storage, new to the
\* table, and the four input values; an id in the input is ignored, every
\* record already stored is left as it was.
C1_CreateInsertsAndReturns ==
    [][Answered("createBook") =>
         /\ Ok(response')
         /\ HasBook(response')
         /\ LET book == BookOf(response')
                book_data == response'.arg
            IN  /\ book.id # None
                /\ book.id[1] \notin DOMAIN rows
                /\ ColumnsOf(book) = ColumnsOf(book_data)
                /\ DOMAIN rows' = DOMAIN rows \cup {book.id[1]}
                /\ rows'[book.id[1]] = ColumnsOf(book_data)
                /\ OthersKept(rows, rows', book.id[1])]_vars

\* A create whose input named the id of another stored record.
C1_Witness ==
    /\ response.op = "createBook"
    /\ Ok(response)
    /\ response.arg.id # None
    /\ response.arg.id[1] \in DOMAIN rows
    /\ response.arg.id # BookOf(response).id

\* C2: a book query on the id of a record that createBook returned, with
\* no update or delete of that id since, returns a record equal to it.
C2_CreateThenFetch ==
    (response.op = "book" /\ response.arg \in DOMAIN created)
    => /\ Ok(response)
       /\ response.data = created[response.arg]

\* A fetch of a created record while the other record of the table has
\* been updated since its creation.
C2_Witness ==
    /\ response.op = "book"
    /\ response.arg \in DOMAIN created
    /\ response.data # None
    /\ response.data[1].author = None
    /\ DOMAIN rows \ DOMAIN created # {}

\* C3: an updateBook whose lookup found the record under its id is
\* answered with the updated record: all four columns overwritten with the
\* input's values (None for a field the input leaves out) under the same
\* id, and a book query on that id then returns exactly these values; an
\* updateBook is refused at its lookup only when its id is not stored.
C3_UpdateOverwritesAll ==
    /\ [][\A frame \in BagToSet(req) :
            (Written(frame) /\ frame.op = "updateBook")
            => LET book_data == frame.arg
               IN  /\ response'.op = "updateBook"
                   /\ response'.arg = book_data
                   /\ Ok(response')
                   /\ HasBook(response')
                   /\ BookOf(response') = Record(book_data)
                   /\ book_data.id[1] \in DOMAIN rows'
                   /\ rows'[book_data.id[1]] = ColumnsOf(book_data)
                   /\ Query_book(resolve_book(rows', book_data.id[1]))
                          = [data |-> Some(Record(book_data)), error |-> None]]_vars
    /\ [][(Answered("updateBook") /\ Refused)
          => (response'.arg.id = None \/ response'.arg.id[1] \notin DOMAIN rows)]_vars

\* C4: once deleteBook removed an id, every later book query on it fails
\* with NotFound and no later allBooks lists it, whatever requests follow.
C4_DeletedStaysGone ==
    /\ (response.op = "book" /\ response.arg \in deleted) => NotFound(response)
    /\ (response.op = "allBooks" /\ response.data # None) =>
          \A book \in response.data[1] : book.id[1] \notin deleted

\* C5: the review query sends the client the collection of exactly the
\* stored records whose review equals N, empty when there is none, never
\* an error or null.
C5_ReviewReturnsMatches ==
    response.op = "review" =>
        /\ Ok(response)
        /\ response.data =
              Some({FromRow(rows, k) :
                      k \in {x \in DOMAIN rows : rows[x].review = Some(response.arg)}})

\* C6: a book, updateBook or deleteBook request whose lookup finds no
\* record under its id (never created, or deleted by then) is answered
\* with the uncaught NotFound error and changes nothing: no such request
\* gets past its lookup, and updateBook never answers with a null book.
C6_MissingIdNotFound ==
    /\ [][\A frame \in BagToSet(req') :
            Passed(frame) =>
               frame.arg.id # None /\ frame.arg.id[1] \in DOMAIN rows]_vars
    /\ [][(/\ Refused
           /\ \/ response'.op = "book" /\ response'.arg \notin DOMAIN rows
              \/ /\ response'.op \in {"updateBook", "deleteBook"}
                 /\ (response'.arg.id = None
                       \/ response'.arg.id[1] \notin DOMAIN rows))
          => /\ NotFound(response')
             /\ rows' = rows
             /\ seq' = seq]_vars
    /\ []((response.op = "updateBook" /\ Ok(response)) => HasBook(response))

\* An update of an id that was deleted before.
C6_Witness ==
    /\ response.op = "updateBook"
    /\ NotFound(response)
    /\ response.arg.id # None
    /\ response.arg.id[1] \in deleted
    /\ DOMAIN rows # {}

\* C7: deleteBook on a stored id is not refused; its delete removes the
\* record of that id and no other, and the answer carries no book: the
\* mutation's result is null.
C7_DeleteRemovesOne ==
    /\ [][\A frame \in BagToSet(req) :
            (Stepped(frame) /\ frame.op = "deleteBook")
            => /\ Written(frame)
               /\ rows' = Drop(rows, frame.arg.id[1])
               /\ response'.op = "deleteBook"
               /\ response'.arg = frame.arg
               /\ Ok(response')
               /\ response'.data = None]_vars
    /\ [][(Answered("deleteBook") /\ Refused)
          => response'.arg.id[1] \notin DOMAIN rows]_vars

\* A delete that left another record in the table.
C7_Witness ==
    /\ response.op = "deleteBook"
    /\ Ok(response)
    /\ response.arg.id[1] \in deleted
    /\ response.arg.id[1] \notin DOMAIN rows
    /\ DOMAIN rows # {}

\* C8: ids identify records and never change: createBook hands out an id
\* no stored record has and touches no stored record; no statement of an
\* updateBook removes a record, stores one under an id other than the one
\* it was given, or changes another record, and its answer carries the id
\* it was given; allBooks never lists two records under one id.
C8_IdsUniqueAndStable ==
    /\ [][Answered("createBook") =>
            /\ seq' \notin DOMAIN rows
            /\ DOMAIN rows' = DOMAIN rows \cup {seq'}
            /\ OthersKept(rows, rows', seq')]_vars
    /\ [][\A frame \in BagToSet(req) :
            (Stepped(frame) /\ frame.op = "updateBook")
            => /\ DOMAIN rows \subseteq DOMAIN rows'
               /\ DOMAIN rows' \subseteq DOMAIN rows \cup {frame.arg.id[1]}
               /\ OthersKept(rows, rows', frame.arg.id[1])
               /\ (Written(frame) /\ Ok(response'))
                    => /\ HasBook(response')
                       /\ BookOf(response').id = frame.arg.id]_vars
    /\ []((response.op = "allBooks" /\ response.data # None) =>
            \A b1, b2 \in response.data[1] : b1.id = b2.id => b1 = b2)

\* An update of one of two stored records, answered while another update
\* of the same id is in flight.
C8_Witness ==
    /\ response.op = "updateBook"
    /\ Ok(response)
    /\ Cardinality(DOMAIN rows) > 1
    /\ \E frame \in BagToSet(req) :
          frame.op = "updateBook" /\ frame.arg.id = response.arg.id

\* C9: an updateBook whose save comes upon a record under its id that was
\* stored after the request's lookup (two updates of one id, both lookups
\* before either save) still succeeds, answers with its own values, and
\* leaves the stored record equal in all four columns to its own input:
\* the save that comes last wins.
C9_LastSaveWins ==
    (response.op = "updateBook" /\ response.over # None)
    => /\ Ok(response)
       /\ HasBook(response)
       /\ BookOf(response).id = response.arg.id
       /\ response.over[1].id = response.arg.id
       /\ ColumnsOf(BookOf(response)) = ColumnsOf(response.arg)
       /\ response.arg.id[1] \in DOMAIN rows
       /\ rows[response.arg.id[1]] = ColumnsOf(response.arg)

\* C10: once a deleteBook request is answered with success, the table
\* holds no record under its id in any later state, also when a concurrent
\* updateBook on that id runs its save afterwards.
C10_DeleteSurvivesPendingSave ==
    \A id \in deleted : id \notin DOMAIN rows

====
